---- MODULE Spec2Model ----
(***************************************************************************)
(* wol-proxy: three TCP proxies.                                           *)
(*   src/bin/keepawake.rs  wake-lock proxy, cancel-on-signal supervisor,   *)
(*                         current_thread runtime (tasks run atomically    *)
(*                         between await points)           -> Spec         *)
(*   src/main.rs           wake-lock proxy, non-cancelling supervisor,     *)
(*                         multi-thread runtime (every access to shared    *)
(*                         state is a step of its own)     -> SpecMain     *)
(*   src/bin/wol.rs        wake-on-lan proxy               -> SpecWol      *)
(*                         the same with fairness, for the liveness        *)
(*                         properties                      -> FairSpecWol  *)
(* Time is counted in ticks: of one second for the wake-lock proxies, of   *)
(* half a second for wol.rs, whose ping attempts last up to one second.    *)
(***************************************************************************)
EXTENDS Integers, FiniteSets, TLC

\* Number of connection task slots; a slot is reused once its task ended.
MaxConns == 2
\* args.timeout of the wake-lock proxies, in ticks.
Timeout == 2
\* args.timeout of wol.rs, in ticks.
WakeTimeout == 3
\* Duration::from_secs(1) of the initial probe, wol.rs line 68, in ticks.
InitialProbeTimeout == 2
\* Duration::from_secs(1) of one send_ping_async, wol.rs line 49, in ticks.
PingTimeout == 2

\* Task slots in use in FairSpecWol, the specification of wol.rs under which
\* the liveness properties are checked.
MaxHandshakes == 1

Conns == 1..MaxConns

\* Value of upAt[c] when it records no moment: larger than any elapsed[c].
NoUp == WakeTimeout + 2

VARIABLES
    running,             \* main() has not returned (the process is alive)
    pc,                  \* pc[c]: position of connection task c
    outcome,             \* outcome[c]: result of handle_client of task c
    enters,              \* enters[c]: fetch_add calls made by task c (history)
    leaves,              \* leaves[c]: fetch_sub calls made by task c (history)
    active_connections,  \* the AtomicU64
    notified,            \* the supervisor's Notified future has been completed
    notifyGen,           \* parity of the number of notify_waiters() calls
    svpc,                \* position of the supervisor task
    locked,              \* keepawake.rs: the supervisor's flag `locked`
    awake,               \* `_awake` is Some: the wake lock is Held
    timer,               \* ticks left of the supervisor's sleep(timeout)
    sinceZero,           \* history: ticks since active_connections became 0
    heldAtZero,          \* history: the lock was Held when it became 0
    creates,             \* history: create() calls since the last release
    up,                  \* wol.rs: the target answers pings
    elapsed,             \* wol.rs: elapsed[c] = start.elapsed() of c's ping()
    initial,             \* wol.rs history: result of c's initial probe
    wakes,               \* wol.rs history: send_to calls made for c
    connects,            \* wol.rs history: TcpStream::connect calls for c
    upSeen,              \* wol.rs history: target was up while c polled in time
    inflight,            \* wol.rs: c awaits a send_ping_async that will fail
    age,                 \* wol.rs: ticks since that send_ping_async was called
    answered,            \* wol.rs history: a ping of c was answered
    upAt                 \* wol.rs history: elapsed[c] when the target came up
                         \* for good during c's second ping(), else NoUp

connVars == <<pc, outcome, enters, leaves>>
lockVars == <<active_connections, notified, notifyGen, svpc, locked, awake,
              timer, sinceZero, heldAtZero, creates>>
wolVars  == <<up, elapsed, initial, wakes, connects, upSeen,
              inflight, age, answered, upAt>>
vars     == <<running, connVars, lockVars, wolVars>>

Min(a, b) == IF a < b THEN a ELSE b
Max(a, b) == IF a > b THEN a ELSE b

(***************************************************************************)
(* Shared by keepawake.rs and main.rs: the counter and the notifier.       *)
(***************************************************************************)

\* AtomicU64::fetch_add(1) / fetch_sub(1): the new value.  A value below 0
\* stands for the wrapped value of the unsigned counter.
FetchAdd(v) == v + 1

\* Faulty variant of FetchSub: the decrement is made twice.
FetchSubTwice(v) == v - 2
FetchSub(v) == v - 1

\* Faulty variant of NotifyOnEnter: every enter notifies.
NotifyOnEnterAlways(prev) == TRUE
\* `if fetch_add(1) == 0`, on the value returned.
NotifyOnEnter(prev) == prev = 0

\* `if fetch_sub(1) == 1`, on the value returned.
NotifyOnLeave(prev) == prev = 1

\* A Notified future exists and has not completed: it is woken by
\* notify_waiters().  A call with no such future is lost (no permit is stored).
Registered == svpc \in {"wait", "debounce"}

\* notify_waiters(), when `raise`.
Signal(raise) ==
    /\ notified' = IF raise /\ Registered THEN TRUE ELSE notified
    /\ notifyGen' = IF raise THEN ~notifyGen ELSE notifyGen

\* History of the last 1 -> 0 crossing.
TrackZero(old, new) ==
    /\ sinceZero' = IF new = 0
                    THEN (IF old = 0 THEN sinceZero ELSE 0)
                    ELSE Timeout
    /\ heldAtZero' = IF new = 0
                     THEN (IF old = 0 THEN heldAtZero ELSE awake)
                     ELSE FALSE

\* listener.accept() returned a connection and its task was spawned.
Accept(c) ==
    /\ running
    /\ pc[c] \in {"idle", "finished"}
    /\ pc' = [pc EXCEPT ![c] = "spawned"]
    /\ outcome' = [outcome EXCEPT ![c] = "none"]
    /\ enters' = [enters EXCEPT ![c] = 0]
    /\ leaves' = [leaves EXCEPT ![c] = 0]
    /\ UNCHANGED <<running, lockVars, wolVars>>

\* listener.accept().await? failed: main returns and the process exits.
AcceptFail ==
    /\ running
    /\ running' = FALSE
    /\ UNCHANGED <<connVars, lockVars, wolVars>>

\* TcpStream::connect succeeded; copy_bidirectional runs.
ConnectOk(c) ==
    /\ running
    /\ pc[c] = "connecting"
    /\ pc' = [pc EXCEPT ![c] = "forwarding"]
    /\ UNCHANGED <<running, outcome, enters, leaves, lockVars, wolVars>>

(***************************************************************************)
(* keepawake.rs: connection tasks.                                         *)
(***************************************************************************)

\* First poll of the task: fetch_add and notify_waiters.
Enter(c) ==
    /\ running
    /\ pc[c] = "spawned"
    /\ LET prev == active_connections IN
         /\ active_connections' = FetchAdd(prev)
         /\ Signal(NotifyOnEnter(prev))
         /\ TrackZero(prev, FetchAdd(prev))
    /\ pc' = [pc EXCEPT ![c] = "connecting"]
    /\ enters' = [enters EXCEPT ![c] = @ + 1]
    /\ UNCHANGED <<running, outcome, leaves, svpc, locked, awake, timer, wolVars>>
    /\ UNCHANGED creates

\* Faulty variant of TaskEnd: an error of handle_client is propagated with
\* `?`, so the task ends before its fetch_sub.
TaskEndSkipOnErr(c, out) ==
    /\ pc' = [pc EXCEPT ![c] = "finished"]
    /\ outcome' = [outcome EXCEPT ![c] = out]
    /\ IF out = "ok"
       THEN LET prev == active_connections IN
              /\ active_connections' = FetchSub(prev)
              /\ Signal(NotifyOnLeave(prev))
              /\ TrackZero(prev, FetchSub(prev))
              /\ leaves' = [leaves EXCEPT ![c] = @ + 1]
       ELSE UNCHANGED <<active_connections, notified, notifyGen, sinceZero,
                        heldAtZero, leaves>>
    /\ UNCHANGED <<running, enters, svpc, locked, awake, timer, wolVars>>
    /\ UNCHANGED creates

\* handle_client returned `out`: the match, fetch_sub and notify_waiters.
TaskEnd(c, out) ==
    /\ pc' = [pc EXCEPT ![c] = "finished"]
    /\ outcome' = [outcome EXCEPT ![c] = out]
    /\ LET prev == active_connections IN
         /\ active_connections' = FetchSub(prev)
         /\ Signal(NotifyOnLeave(prev))
         /\ TrackZero(prev, FetchSub(prev))
    /\ leaves' = [leaves EXCEPT ![c] = @ + 1]
    /\ UNCHANGED <<running, enters, svpc, locked, awake, timer, wolVars>>
    /\ UNCHANGED creates

\* TcpStream::connect(&target_addr).await? failed.
ConnectFail(c) ==
    /\ running
    /\ pc[c] = "connecting"
    /\ TaskEnd(c, "connect_err")

\* copy_bidirectional ended with Ok.
ForwardOk(c) ==
    /\ running
    /\ pc[c] = "forwarding"
    /\ TaskEnd(c, "ok")

\* copy_bidirectional(..).await? failed.
ForwardErr(c) ==
    /\ running
    /\ pc[c] = "forwarding"
    /\ TaskEnd(c, "io_err")

(***************************************************************************)
(* keepawake.rs: the supervisor.  "wait" is line 37, "debounce" the        *)
(* select! of lines 53-56, "dead" the task after `?` returned the error.   *)
(***************************************************************************)

\* Faulty variant of NeedsLock: the flag is not consulted.
NeedsLockAlways == TRUE
\* Line 40: `if !locked`.
NeedsLock == ~locked

\* Lines 37-50: woken, count > 0, lock not held, create() succeeded.
SvAcquire ==
    /\ running
    /\ svpc = "wait" /\ notified
    /\ active_connections > 0
    /\ NeedsLock
    /\ awake' = TRUE
    /\ locked' = TRUE
    /\ notified' = FALSE
    /\ UNCHANGED <<running, connVars, active_connections, notifyGen, svpc,
                   timer, sinceZero, heldAtZero, wolVars>>
    /\ creates' = Min(creates + 1, 2)

\* Lines 42-48: create()? failed; the supervisor task ends with the error.
SvAcquireFail ==
    /\ running
    /\ svpc = "wait" /\ notified
    /\ active_connections > 0
    /\ NeedsLock
    /\ svpc' = "dead"
    /\ notified' = FALSE
    /\ UNCHANGED <<running, connVars, active_connections, notifyGen, locked,
                   awake, timer, sinceZero, heldAtZero, wolVars>>
    /\ UNCHANGED creates

\* Lines 39-40: woken, count > 0, `locked` already set.
SvNoop ==
    /\ running
    /\ svpc = "wait" /\ notified
    /\ active_connections > 0
    /\ ~NeedsLock
    /\ notified' = FALSE
    /\ UNCHANGED <<running, connVars, active_connections, notifyGen, svpc,
                   locked, awake, timer, sinceZero, heldAtZero, wolVars>>
    /\ UNCHANGED creates

\* Lines 51-56: woken, count = 0: start sleep(timeout) and a new notified().
SvStartDebounce ==
    /\ running
    /\ svpc = "wait" /\ notified
    /\ ~(active_connections > 0)
    /\ svpc' = "debounce"
    /\ timer' = Timeout
    /\ notified' = FALSE
    /\ UNCHANGED <<running, connVars, active_connections, notifyGen, locked,
                   awake, sinceZero, heldAtZero, wolVars>>
    /\ UNCHANGED creates

\* The select! is over when the sleep elapsed or the notification came.
SelectDone == timer = 0 \/ notified

\* Lines 59-60: the wake lock is dropped after the wait.
ReleaseAfterWait == active_connections = 0 /\ locked

\* Lines 53-82: the select! ended; re-check, release, back to line 37.
SvDebounceEnd ==
    /\ running
    /\ svpc = "debounce"
    /\ SelectDone
    /\ IF ReleaseAfterWait
       THEN awake' = FALSE /\ locked' = FALSE /\ creates' = 0
       ELSE UNCHANGED <<awake, locked, creates>>
    /\ svpc' = "wait"
    /\ timer' = 0
    /\ notified' = FALSE
    /\ UNCHANGED <<running, connVars, active_connections, notifyGen,
                   sinceZero, heldAtZero, wolVars>>

\* One second passes.
Tick ==
    /\ running
    /\ timer > 0 \/ (active_connections = 0 /\ sinceZero < Timeout)
    /\ timer' = Max(timer - 1, 0)
    /\ sinceZero' = IF active_connections = 0
                    THEN Min(sinceZero + 1, Timeout)
                    ELSE sinceZero
    /\ UNCHANGED <<running, connVars, active_connections, notified, notifyGen,
                   svpc, locked, awake, heldAtZero, wolVars>>
    /\ UNCHANGED creates

WolIdle ==
    /\ up = FALSE
    /\ elapsed = [c \in Conns |-> 0]
    /\ initial = [c \in Conns |-> "none"]
    /\ wakes = [c \in Conns |-> 0]
    /\ connects = [c \in Conns |-> 0]
    /\ upSeen = [c \in Conns |-> FALSE]
    /\ inflight = [c \in Conns |-> FALSE]
    /\ age = [c \in Conns |-> 0]
    /\ answered = [c \in Conns |-> FALSE]
    /\ upAt = [c \in Conns |-> NoUp]

ConnInit ==
    /\ running = TRUE
    /\ pc = [c \in Conns |-> "idle"]
    /\ outcome = [c \in Conns |-> "none"]
    /\ enters = [c \in Conns |-> 0]
    /\ leaves = [c \in Conns |-> 0]

LockInit ==
    /\ active_connections = 0
    /\ notified = FALSE
    /\ notifyGen = FALSE
    /\ locked = FALSE
    /\ awake = FALSE
    /\ timer = 0
    /\ sinceZero = Timeout
    /\ heldAtZero = FALSE
    /\ creates = 0

\* keepawake.rs after main reached its first accept(): the supervisor, spawned
\* at line 105, was polled when main first yielded and waits at line 37.
Init ==
    /\ ConnInit
    /\ LockInit
    /\ svpc = "wait"
    /\ WolIdle

Next ==
    \/ \E c \in Conns : Accept(c)
    \/ AcceptFail
    \/ \E c \in Conns : Enter(c)
    \/ \E c \in Conns : ConnectOk(c)
    \/ \E c \in Conns : ConnectFail(c)
    \/ \E c \in Conns : ForwardOk(c)
    \/ \E c \in Conns : ForwardErr(c)
    \/ SvAcquire
    \/ SvAcquireFail
    \/ SvNoop
    \/ SvStartDebounce
    \/ SvDebounceEnd
    \/ Tick

Spec == Init /\ [][Next]_vars

(***************************************************************************)
(* main.rs: connection tasks.  The runtime is multi-threaded, so fetch_add *)
(* and notify_waiters (and fetch_sub and notify_waiters) are two steps.    *)
(***************************************************************************)

\* Line 92: fetch_add; the branch on the value it returned.
MFetchAdd(c) ==
    /\ running
    /\ pc[c] = "spawned"
    /\ LET prev == active_connections IN
         /\ active_connections' = FetchAdd(prev)
         /\ TrackZero(prev, FetchAdd(prev))
         /\ pc' = [pc EXCEPT ![c] = IF NotifyOnEnter(prev)
                                    THEN "notify_enter" ELSE "connecting"]
    /\ enters' = [enters EXCEPT ![c] = @ + 1]
    /\ UNCHANGED <<running, outcome, leaves, notified, notifyGen, svpc, locked,
                   awake, timer, wolVars>>
    /\ UNCHANGED creates

\* Line 93: notify_waiters after the first connection opened.
MNotifyEnter(c) ==
    /\ running
    /\ pc[c] = "notify_enter"
    /\ Signal(TRUE)
    /\ pc' = [pc EXCEPT ![c] = "connecting"]
    /\ UNCHANGED <<running, outcome, enters, leaves, active_connections, svpc,
                   locked, awake, timer, sinceZero, heldAtZero, wolVars>>
    /\ UNCHANGED creates

\* Lines 97-102: handle_client returned `out`; the match and fetch_sub.
MTaskEnd(c, out) ==
    /\ outcome' = [outcome EXCEPT ![c] = out]
    /\ LET prev == active_connections IN
         /\ active_connections' = FetchSub(prev)
         /\ TrackZero(prev, FetchSub(prev))
         /\ pc' = [pc EXCEPT ![c] = IF NotifyOnLeave(prev)
                                    THEN "notify_leave" ELSE "finished"]
    /\ leaves' = [leaves EXCEPT ![c] = @ + 1]
    /\ UNCHANGED <<running, enters, notified, notifyGen, svpc, locked, awake,
                   timer, wolVars>>
    /\ UNCHANGED creates

\* Line 103: notify_waiters after the last connection closed.
MNotifyLeave(c) ==
    /\ running
    /\ pc[c] = "notify_leave"
    /\ Signal(TRUE)
    /\ pc' = [pc EXCEPT ![c] = "finished"]
    /\ UNCHANGED <<running, outcome, enters, leaves, active_connections, svpc,
                   locked, awake, timer, sinceZero, heldAtZero, wolVars>>
    /\ UNCHANGED creates

\* TcpStream::connect(&target_addr).await? failed.
MConnectFail(c) ==
    /\ running
    /\ pc[c] = "connecting"
    /\ MTaskEnd(c, "connect_err")

\* copy_bidirectional ended with Ok.
MForwardOk(c) ==
    /\ running
    /\ pc[c] = "forwarding"
    /\ MTaskEnd(c, "ok")

\* copy_bidirectional(..).await? failed.
MForwardErr(c) ==
    /\ running
    /\ pc[c] = "forwarding"
    /\ MTaskEnd(c, "io_err")

(***************************************************************************)
(* main.rs: the supervisor.  "top" is the loop head before notified() is   *)
(* called, "wait" line 36, "acquiring" lines 40-47, "sleep" line 51,       *)
(* "releasing" lines 55-56, "dead" the task after `?` returned the error.  *)
(***************************************************************************)

\* Line 36: notified() creates the future; from now on it is woken.
MSvRegister ==
    /\ running
    /\ svpc = "top"
    /\ svpc' = "wait"
    /\ notified' = FALSE
    /\ UNCHANGED <<running, connVars, active_connections, notifyGen, locked,
                   awake, timer, sinceZero, heldAtZero, wolVars>>
    /\ UNCHANGED creates

\* Lines 38-39: woken, the load sees count > 0.
MSvSeesActive ==
    /\ running
    /\ svpc = "wait" /\ notified
    /\ active_connections > 0
    /\ svpc' = IF ~awake THEN "acquiring" ELSE "top"
    /\ notified' = FALSE
    /\ UNCHANGED <<running, connVars, active_connections, notifyGen, locked,
                   awake, timer, sinceZero, heldAtZero, wolVars>>
    /\ UNCHANGED creates

\* Lines 41-47: create() succeeded.
MSvAcquire ==
    /\ running
    /\ svpc = "acquiring"
    /\ awake' = TRUE
    /\ svpc' = "top"
    /\ UNCHANGED <<running, connVars, active_connections, notified, notifyGen,
                   locked, timer, sinceZero, heldAtZero, wolVars>>
    /\ creates' = Min(creates + 1, 2)

\* Lines 41-47: create()? failed; the supervisor task ends with the error.
MSvAcquireFail ==
    /\ running
    /\ svpc = "acquiring"
    /\ svpc' = "dead"
    /\ UNCHANGED <<running, connVars, active_connections, notified, notifyGen,
                   locked, awake, timer, sinceZero, heldAtZero, wolVars>>
    /\ UNCHANGED creates

\* Lines 49-51: woken, the load sees 0: sleep(timeout), not cancellable.
MSvStartSleep ==
    /\ running
    /\ svpc = "wait" /\ notified
    /\ ~(active_connections > 0)
    /\ svpc' = "sleep"
    /\ timer' = Timeout
    /\ notified' = FALSE
    /\ UNCHANGED <<running, connVars, active_connections, notifyGen, locked,
                   awake, sinceZero, heldAtZero, wolVars>>
    /\ UNCHANGED creates

\* Line 54: the sleep elapsed; the second load.
MSvRecheck ==
    /\ running
    /\ svpc = "sleep"
    /\ timer = 0
    /\ svpc' = IF active_connections = 0 THEN "releasing" ELSE "top"
    /\ UNCHANGED <<running, connVars, active_connections, notified, notifyGen,
                   locked, awake, timer, sinceZero, heldAtZero, wolVars>>
    /\ UNCHANGED creates

\* Lines 55-56: `_awake = None`.
MSvRelease ==
    /\ running
    /\ svpc = "releasing"
    /\ awake' = FALSE
    /\ svpc' = "top"
    /\ UNCHANGED <<running, connVars, active_connections, notified, notifyGen,
                   locked, timer, sinceZero, heldAtZero, wolVars>>
    /\ creates' = 0

\* main.rs after main spawned the supervisor (line 78), which has not run yet.
InitMain ==
    /\ ConnInit
    /\ LockInit
    /\ svpc = "top"
    /\ WolIdle

NextMain ==
    \/ \E c \in Conns : Accept(c)
    \/ AcceptFail
    \/ \E c \in Conns : MFetchAdd(c)
    \/ \E c \in Conns : MNotifyEnter(c)
    \/ \E c \in Conns : ConnectOk(c)
    \/ \E c \in Conns : MConnectFail(c)
    \/ \E c \in Conns : MForwardOk(c)
    \/ \E c \in Conns : MForwardErr(c)
    \/ \E c \in Conns : MNotifyLeave(c)
    \/ MSvRegister
    \/ MSvSeesActive
    \/ MSvAcquire
    \/ MSvAcquireFail
    \/ MSvStartSleep
    \/ MSvRecheck
    \/ MSvRelease
    \/ Tick

SpecMain == InitMain /\ [][NextMain]_vars

(***************************************************************************)
(* wol.rs.  Task positions: "probe" is the first ping() (line 68), "wake"  *)
(* the send of the magic packet (lines 70-73), "poll" the second ping()    *)
(* (line 77), "connect" line 84, "forwarding" line 85; "failed" is a task  *)
(* whose handle_client returned an error, "finished" one that returned Ok. *)
(***************************************************************************)

\* Faulty variant of PingExpired: the deadline itself counts as passed.
PingExpiredEarly(e, timeout) == e >= timeout
\* Faulty variant of PingExpired: the deadline is never seen as passed.
PingNeverExpires(e, timeout) == FALSE
\* Line 44: `start.elapsed() > timeout`.
PingExpired(e, timeout) == e > timeout

\* Lines 47-57: one send_ping_async; Ok if and only if the target answers.
Probe == up

\* Faulty variant of AfterPingErr: a failed poll sends the packet again.
AfterPingErrRewake(p) == IF p = "poll" THEN "wake" ELSE p
\* Lines 56-58: after Err(_) the loop of the same ping() call goes on.
AfterPingErr(p) == p

\* Faulty variant of AfterInitialProbe: the packet is sent in any case.
AfterInitialProbeAlwaysWake(reachable) == "wake"
\* Line 68: `if !ping(..)` decides between the wake-on-lan block and line 84.
AfterInitialProbe(reachable) == IF reachable THEN "connect" ELSE "wake"

\* Faulty variant of AfterPoll: the result of the second ping() is ignored.
AfterPollNoBail(reachable) == "connect"
\* Lines 77-79: `if !ping(..) { bail!(..) }`.
AfterPoll(reachable) == IF reachable THEN "connect" ELSE "failed"

\* Faulty variant of ExpiredResult: an expired ping() reports success.
ExpiredResultTrue == TRUE
\* Line 45: `return false`.
ExpiredResult == FALSE

\* Faulty variant of AfterWakeErr: the error of send_to is dropped.
AfterWakeErrIgnored == "poll"
\* Line 73: the `?` after send_to returns the error from handle_client.
AfterWakeErr == "failed"

\* The timeout argument of the ping() call task c is in.
PingTimeoutOf(c) == IF pc[c] = "probe" THEN InitialProbeTimeout ELSE WakeTimeout

\* handle_client goes on after ping() returned `reachable`.
PingReturns(c, reachable) ==
    IF pc[c] = "probe"
    THEN /\ pc' = [pc EXCEPT ![c] = AfterInitialProbe(reachable)]
         /\ initial' = [initial EXCEPT ![c] = IF reachable THEN "ok" ELSE "fail"]
         /\ outcome' = outcome
    ELSE /\ pc' = [pc EXCEPT ![c] = AfterPoll(reachable)]
         /\ initial' = initial
         /\ outcome' = [outcome EXCEPT ![c] =
                           IF AfterPoll(reachable) = "failed"
                           THEN "timeout" ELSE @]

\* History.  upSeen[c]: the target was up at a moment when task c was in
\* the second ping() and its deadline had not passed.  upAt[c]: the value of
\* elapsed[c] at the moment since which the target has been up without
\* interruption during the second ping() of c; kept while c is at line 84
\* or has failed with the wake-timeout error.
TrackUp ==
    /\ upSeen' = [c \in Conns |->
                 IF pc'[c] = "poll"
                 THEN upSeen[c] \/ (up' /\ elapsed'[c] <= WakeTimeout)
                 ELSE IF pc'[c] \in {"connect", "forwarding", "failed", "finished"}
                 THEN upSeen[c]
                 ELSE FALSE]
    /\ upAt' = [c \in Conns |->
                 IF pc'[c] = "poll"
                 THEN IF ~up' THEN NoUp
                      ELSE IF pc[c] = "poll" /\ up THEN upAt[c]
                      ELSE elapsed'[c]
                 ELSE IF pc[c] \in {"poll", "connect", "failed"}
                         /\ (\/ pc'[c] = "connect"
                             \/ pc'[c] = "failed" /\ outcome'[c] = "timeout")
                 THEN upAt[c]
                 ELSE NoUp]

\* Line 112: listener.accept().await? failed: main returns, the runtime is
\* shut down and every task is dropped with its state.
WAcceptFail ==
    /\ running
    /\ running' = FALSE
    /\ pc' = [c \in Conns |-> IF pc[c] = "off" THEN "off" ELSE "idle"]
    /\ outcome' = [c \in Conns |-> "none"]
    /\ up' = FALSE
    /\ elapsed' = [c \in Conns |-> 0]
    /\ initial' = [c \in Conns |-> "none"]
    /\ wakes' = [c \in Conns |-> 0]
    /\ connects' = [c \in Conns |-> 0]
    /\ inflight' = [c \in Conns |-> FALSE]
    /\ age' = [c \in Conns |-> 0]
    /\ answered' = [c \in Conns |-> FALSE]
    /\ UNCHANGED <<enters, leaves, lockVars>>
    /\ TrackUp

\* Lines 112-113: listener.accept() returned a connection and its task was
\* spawned, in the first free task slot.
WAccept(c) ==
    /\ running
    /\ pc[c] \in {"idle", "finished", "failed"}
    /\ \A d \in Conns : d < c => pc[d] \notin {"idle", "finished", "failed"}
    /\ pc' = [pc EXCEPT ![c] = "spawned"]
    /\ outcome' = [outcome EXCEPT ![c] = "none"]
    /\ elapsed' = [elapsed EXCEPT ![c] = 0]
    /\ initial' = [initial EXCEPT ![c] = "none"]
    /\ wakes' = [wakes EXCEPT ![c] = 0]
    /\ connects' = [connects EXCEPT ![c] = 0]
    /\ inflight' = [inflight EXCEPT ![c] = FALSE]
    /\ age' = [age EXCEPT ![c] = 0]
    /\ answered' = [answered EXCEPT ![c] = FALSE]
    /\ UNCHANGED <<running, enters, leaves, lockVars, up>>
    /\ TrackUp

\* First poll of the task: handle_client calls ping(), which reads the clock.
WStart(c) ==
    /\ running
    /\ pc[c] = "spawned"
    /\ pc' = [pc EXCEPT ![c] = "probe"]
    /\ UNCHANGED <<running, outcome, enters, leaves, lockVars, up, elapsed,
                   initial, wakes, connects>>
    /\ UNCHANGED <<inflight, age, answered>>
    /\ TrackUp

\* Lines 44-56: the deadline has not passed, the ping is answered.
PingTrue(c) ==
    /\ running
    /\ pc[c] \in {"probe", "poll"}
    /\ ~inflight[c]
    /\ ~PingExpired(elapsed[c], PingTimeoutOf(c))
    /\ Probe
    /\ PingReturns(c, TRUE)
    /\ elapsed' = [elapsed EXCEPT ![c] = 0]
    /\ answered' = [answered EXCEPT ![c] = TRUE]
    /\ UNCHANGED <<running, enters, leaves, lockVars, up, wakes, connects,
                   inflight, age>>
    /\ TrackUp

\* Lines 44-53: the deadline has not passed, send_ping_async is called and
\* the target is down: the echo request is lost and the call will fail,
\* at once or when its own timeout of line 49 expires.
PingSend(c) ==
    /\ running
    /\ pc[c] \in {"probe", "poll"}
    /\ ~inflight[c]
    /\ ~PingExpired(elapsed[c], PingTimeoutOf(c))
    /\ ~Probe
    /\ inflight' = [inflight EXCEPT ![c] = TRUE]
    /\ age' = [age EXCEPT ![c] = 0]
    /\ UNCHANGED <<running, connVars, lockVars, up, elapsed, initial,
                   wakes, connects, answered>>
    /\ TrackUp

\* Lines 56-58: the send_ping_async in flight returned Err, the loop goes on.
PingErr(c) ==
    /\ running
    /\ pc[c] \in {"probe", "poll"}
    /\ inflight[c]
    /\ pc' = [pc EXCEPT ![c] = AfterPingErr(pc[c])]
    /\ inflight' = [inflight EXCEPT ![c] = FALSE]
    /\ age' = [age EXCEPT ![c] = 0]
    /\ UNCHANGED <<running, outcome, enters, leaves, lockVars, up, elapsed,
                   initial, wakes, connects, answered>>
    /\ TrackUp

\* Lines 44-45: the deadline has passed, ping() returns false.
PingFalse(c) ==
    /\ running
    /\ pc[c] \in {"probe", "poll"}
    /\ ~inflight[c]
    /\ PingExpired(elapsed[c], PingTimeoutOf(c))
    /\ PingReturns(c, ExpiredResult)
    /\ elapsed' = [elapsed EXCEPT ![c] = 0]
    /\ UNCHANGED <<running, enters, leaves, lockVars, up, wakes, connects>>
    /\ UNCHANGED <<inflight, age, answered>>
    /\ TrackUp

\* Lines 70-77: the magic packet was sent; the second ping() starts.
SendWake(c) ==
    /\ running
    /\ pc[c] = "wake"
    /\ wakes' = [wakes EXCEPT ![c] = @ + 1]
    /\ pc' = [pc EXCEPT ![c] = "poll"]
    /\ UNCHANGED <<running, outcome, enters, leaves, lockVars, up, elapsed,
                   initial, connects>>
    /\ UNCHANGED <<inflight, age, answered>>
    /\ TrackUp

\* Line 73: send_to(..)? failed; handle_client returns the error.
SendWakeFail(c) ==
    /\ running
    /\ pc[c] = "wake"
    /\ wakes' = [wakes EXCEPT ![c] = @ + 1]
    /\ pc' = [pc EXCEPT ![c] = AfterWakeErr]
    /\ outcome' = [outcome EXCEPT ![c] = "wake_err"]
    /\ UNCHANGED <<running, enters, leaves, lockVars, up, elapsed, initial, connects>>
    /\ UNCHANGED <<inflight, age, answered>>
    /\ TrackUp

\* Line 84: TcpStream::connect succeeded.
WConnectOk(c) ==
    /\ running
    /\ pc[c] = "connect"
    /\ connects' = [connects EXCEPT ![c] = @ + 1]
    /\ pc' = [pc EXCEPT ![c] = "forwarding"]
    /\ UNCHANGED <<running, outcome, enters, leaves, lockVars, up, elapsed,
                   initial, wakes>>
    /\ UNCHANGED <<inflight, age, answered>>
    /\ TrackUp

\* Faulty variant of WConnectFail: the error reaches main and ends it.
WConnectFailExits(c) ==
    /\ running
    /\ pc[c] = "connect"
    /\ running' = FALSE
    /\ connects' = [connects EXCEPT ![c] = @ + 1]
    /\ pc' = [pc EXCEPT ![c] = "failed"]
    /\ outcome' = [outcome EXCEPT ![c] = "connect_err"]
    /\ UNCHANGED <<enters, leaves, lockVars, up, elapsed, initial, wakes,
                   inflight, age, answered>>
    /\ TrackUp

\* Line 84: TcpStream::connect(..).await? failed.
WConnectFail(c) ==
    /\ running
    /\ pc[c] = "connect"
    /\ connects' = [connects EXCEPT ![c] = @ + 1]
    /\ pc' = [pc EXCEPT ![c] = "failed"]
    /\ outcome' = [outcome EXCEPT ![c] = "connect_err"]
    /\ UNCHANGED <<running, enters, leaves, lockVars, up, elapsed, initial, wakes>>
    /\ UNCHANGED <<inflight, age, answered>>
    /\ TrackUp

\* Lines 85-88: copy_bidirectional ended with Ok.
WForwardOk(c) ==
    /\ running
    /\ pc[c] = "forwarding"
    /\ pc' = [pc EXCEPT ![c] = "finished"]
    /\ outcome' = [outcome EXCEPT ![c] = "ok"]
    /\ UNCHANGED <<running, enters, leaves, lockVars, up, elapsed, initial, wakes, connects>>
    /\ UNCHANGED <<inflight, age, answered>>
    /\ TrackUp

\* Line 85: copy_bidirectional(..).await? failed.
WForwardErr(c) ==
    /\ running
    /\ pc[c] = "forwarding"
    /\ pc' = [pc EXCEPT ![c] = "failed"]
    /\ outcome' = [outcome EXCEPT ![c] = "io_err"]
    /\ UNCHANGED <<running, enters, leaves, lockVars, up, elapsed, initial, wakes, connects>>
    /\ UNCHANGED <<inflight, age, answered>>
    /\ TrackUp

\* The target host wakes up, or goes to sleep.
TargetUp ==
    /\ running
    /\ ~up
    /\ up' = TRUE
    /\ UNCHANGED <<running, connVars, lockVars, elapsed, initial,
                   wakes, connects>>
    /\ UNCHANGED <<inflight, age, answered>>
    /\ TrackUp

TargetDown ==
    /\ running
    /\ up
    /\ up' = FALSE
    /\ UNCHANGED <<running, connVars, lockVars, elapsed, initial,
                   wakes, connects>>
    /\ UNCHANGED <<inflight, age, answered>>
    /\ TrackUp

\* One tick passes: the clock of every running ping() advances.  A ping()
\* is a loop without a pause (lines 43-58): between two ticks every task in
\* it is inside a send_ping_async, and none stays in one beyond PingTimeout.
InPing(c) == pc[c] \in {"probe", "poll"}
WTick ==
    /\ running
    /\ \E c \in Conns : InPing(c)
    /\ \A c \in Conns : InPing(c) => inflight[c] /\ age[c] < PingTimeout
    /\ elapsed' = [c \in Conns |->
                     IF InPing(c)
                     THEN Min(elapsed[c] + 1, PingTimeoutOf(c) + 1)
                     ELSE elapsed[c]]
    /\ age' = [c \in Conns |-> IF InPing(c) THEN age[c] + 1 ELSE age[c]]
    /\ UNCHANGED <<running, connVars, lockVars, up, initial, wakes,
                   connects, inflight, answered>>
    /\ TrackUp

InitWol ==
    /\ ConnInit
    /\ LockInit
    /\ svpc = "none"
    /\ up \in BOOLEAN
    /\ elapsed = [c \in Conns |-> 0]
    /\ initial = [c \in Conns |-> "none"]
    /\ wakes = [c \in Conns |-> 0]
    /\ connects = [c \in Conns |-> 0]
    /\ upSeen = [c \in Conns |-> FALSE]
    /\ inflight = [c \in Conns |-> FALSE]
    /\ age = [c \in Conns |-> 0]
    /\ answered = [c \in Conns |-> FALSE]
    /\ upAt = [c \in Conns |-> NoUp]

NextWol ==
    \/ WAcceptFail
    \/ \E c \in Conns : WAccept(c)
    \/ \E c \in Conns : WStart(c)
    \/ \E c \in Conns : PingTrue(c)
    \/ \E c \in Conns : PingSend(c)
    \/ \E c \in Conns : PingErr(c)
    \/ \E c \in Conns : PingFalse(c)
    \/ \E c \in Conns : SendWake(c)
    \/ \E c \in Conns : SendWakeFail(c)
    \/ \E c \in Conns : WConnectOk(c)
    \/ \E c \in Conns : WConnectFail(c)
    \/ \E c \in Conns : WForwardOk(c)
    \/ \E c \in Conns : WForwardErr(c)
    \/ TargetUp
    \/ TargetDown
    \/ WTick

SpecWol == InitWol /\ [][NextWol]_vars

\* wol.rs with time that advances (a tick is taken if it is possible again
\* and again), tasks that are polled when they can run, and probes that
\* return (line 49 bounds each send_ping_async).
WolFairness ==
    /\ SF_vars(WTick)
    /\ \A c \in Conns :
          /\ WF_vars(PingTrue(c) \/ PingSend(c) \/ PingFalse(c))
          /\ WF_vars(PingErr(c))

\* As InitWol, with the task slots above MaxHandshakes out of use ("off").
InitFairWol ==
    /\ running = TRUE
    /\ pc = [c \in Conns |-> IF c <= MaxHandshakes THEN "idle" ELSE "off"]
    /\ outcome = [c \in Conns |-> "none"]
    /\ enters = [c \in Conns |-> 0]
    /\ leaves = [c \in Conns |-> 0]
    /\ LockInit
    /\ svpc = "none"
    /\ up \in BOOLEAN
    /\ elapsed = [c \in Conns |-> 0]
    /\ initial = [c \in Conns |-> "none"]
    /\ wakes = [c \in Conns |-> 0]
    /\ connects = [c \in Conns |-> 0]
    /\ upSeen = [c \in Conns |-> FALSE]
    /\ inflight = [c \in Conns |-> FALSE]
    /\ age = [c \in Conns |-> 0]
    /\ answered = [c \in Conns |-> FALSE]
    /\ upAt = [c \in Conns |-> NoUp]

FairSpecWol == InitFairWol /\ [][NextWol]_vars /\ WolFairness

(***************************************************************************)
(* Properties of keepawake.rs, checked under Spec.                         *)
(***************************************************************************)

\* Tasks between "accepted" (spawned at line 117) and "forwarding finished".
AcceptedTasks == {c \in Conns : pc[c] \in {"spawned", "notify_enter",
                                           "connecting", "forwarding"}}
\* Tasks that made their fetch_add and not yet their fetch_sub.
CountedTasks == {c \in Conns : pc[c] \in {"notify_enter", "connecting",
                                          "forwarding"}}

\* C1 as stated: the counter is never negative and equals the number of
\* connection tasks between "accepted" and "forwarding finished".
C1_CountIsAcceptedTasks ==
    /\ active_connections >= 0
    /\ active_connections = Cardinality(AcceptedTasks)

\* C1 amended: the counter is never negative and equals the number of
\* connection tasks between their increment and their decrement; a task that
\* was accepted and spawned but has not run yet is not counted.
C1_CountIsCountedTasks ==
    /\ active_connections >= 0
    /\ active_connections = Cardinality(CountedTasks)

C1_Witness ==
    /\ active_connections = 1
    /\ \E c, d \in Conns : pc[c] = "spawned" /\ pc[d] = "forwarding"

\* C2: a step calls notify_waiters() if and only if it moves the counter
\* from 0 to 1 or from 1 to 0.
C2_SignalIffCrossing ==
    [][(notifyGen' # notifyGen) <=>
         \/ active_connections = 0 /\ active_connections' = 1
         \/ active_connections = 1 /\ active_connections' = 0]_vars

\* Two tasks entered and only the first enter raised a signal.
C2_Witness ==
    /\ active_connections = 2
    /\ notifyGen
    /\ \E c, d \in Conns : c # d /\ pc[c] = "connecting" /\ pc[d] = "connecting"

\* C3: a task that made its increment makes its decrement exactly once,
\* whatever handle_client returned: none before the task ended, one after.
C3_LeaveOncePerEnter ==
    \A c \in Conns :
        /\ pc[c] \in {"idle", "spawned"} => enters[c] = 0 /\ leaves[c] = 0
        /\ pc[c] \in {"connecting", "forwarding"} =>
               enters[c] = 1 /\ leaves[c] = 0
        /\ pc[c] = "finished" =>
               /\ enters[c] = 1 /\ leaves[c] = 1
               /\ outcome[c] \in {"ok", "connect_err", "io_err"}

C3_Witness ==
    \E c, d \in Conns :
        /\ pc[c] = "finished" /\ outcome[c] = "connect_err" /\ leaves[c] = 1
        /\ pc[d] = "finished" /\ outcome[d] = "io_err" /\ leaves[d] = 1

\* C4: the supervisor is never parked at line 37, with no notification
\* pending, while the lock is Released and the counter is positive.
C4_NeverParkedReleasedWhileActive ==
    ~(svpc = "wait" /\ ~notified /\ ~awake /\ active_connections > 0)

\* C5: a connection that opens (0 -> 1) less than Timeout after the last one
\* closed with the lock Held finds the lock still Held.
C5_NoFlicker ==
    [][(/\ active_connections = 0
        /\ active_connections' = 1
        /\ heldAtZero
        /\ sinceZero < Timeout) => awake]_vars

\* C6: the lock goes from Held to Released only when at least Timeout has
\* passed since the counter last became 0.
C6_NoEarlyRelease ==
    [][(awake /\ ~awake') => sinceZero >= Timeout]_vars

\* C12: once create() has failed in the supervisor (line 48), no connection
\* is accepted any more: a failed acquisition ends the process.
C12_NoAcceptAfterAcquireFailure ==
    [][svpc = "dead" =>
         \A c \in Conns : pc'[c] = "spawned" => pc[c] = "spawned"]_vars

\* C17 (state part): create() is called at most once between two releases,
\* a handle exists exactly when create() was called since the last release,
\* and the flag `locked` is true exactly when a handle exists.
C17_OneHandle ==
    /\ creates <= 1
    /\ awake <=> creates = 1
    /\ locked <=> awake

\* C17: C17_OneHandle always holds, and no step taken while the lock is Held,
\* the counter positive and the supervisor at line 37 calls create() or
\* drops the handle.
C17_NoDoubleAcquire ==
    /\ []C17_OneHandle
    /\ [][(svpc = "wait" /\ awake /\ active_connections > 0)
            => (awake' /\ creates' = creates)]_vars

\* A notification is pending for the supervisor while the lock is Held and
\* the counter is positive.
C17_Witness ==
    /\ svpc = "wait" /\ notified
    /\ awake /\ locked /\ creates = 1
    /\ active_connections > 0

(***************************************************************************)
(* Properties of main.rs, checked under SpecMain.                          *)
(***************************************************************************)

\* No task is about to change the counter or to call notify_waiters().
NoTaskInFlight == \A c \in Conns : pc[c] \in {"idle", "finished"}

\* C7: the supervisor is never parked waiting for a notification, with none
\* pending and none to come, while the lock is Held and the counter is 0.
C7_NeverParkedHeldWhileIdle ==
    ~(/\ svpc = "wait" /\ ~notified
      /\ awake
      /\ active_connections = 0
      /\ NoTaskInFlight)

\* C14: under main.rs, a connection that opens (0 -> 1) less than Timeout
\* after the last one closed with the lock Held finds the lock still Held.
C14_NoFlickerMain ==
    [][(/\ active_connections = 0
        /\ active_connections' = 1
        /\ heldAtZero
        /\ sinceZero < Timeout
        /\ svpc # "dead") => awake]_vars

\* No task is between its fetch_add / fetch_sub and the notify_waiters()
\* call that follows it.
NoNotifyToCome == \A c \in Conns : pc[c] \notin {"notify_enter", "notify_leave"}

\* C15: the supervisor of main.rs is never parked at line 36 with the lock
\* Released and the counter positive when no notify_waiters() call is pending
\* or about to be made by a task that changed the counter.
C15_SignalNotLost ==
    ~(/\ svpc = "wait" /\ ~notified
      /\ ~awake
      /\ active_connections > 0
      /\ NoNotifyToCome)

\* C16: under main.rs, the lock goes from Held to Released only in a state
\* where the counter is 0.
C16_ReleaseOnlyAtZero ==
    [][(awake /\ ~awake') => active_connections = 0]_vars

(***************************************************************************)
(* Properties of wol.rs, checked under SpecWol.                            *)
(***************************************************************************)

\* C8: a connection whose initial probe failed has sent no magic packet
\* before line 73 and exactly one from then on, whatever the number of ping
\* attempts of the polling loop and however the handshake ends.
C8_SingleWake ==
    \A c \in Conns :
        initial[c] = "fail" => wakes[c] = IF pc[c] = "wake" THEN 0 ELSE 1

\* The polling loop is in an attempt it began at its deadline, more than
\* PingTimeout after its first one: at least two attempts failed before.
C8_Witness ==
    \E c \in Conns :
        /\ initial[c] = "fail"
        /\ pc[c] = "poll"
        /\ inflight[c] /\ age[c] = 0
        /\ elapsed[c] = WakeTimeout
        /\ WakeTimeout > PingTimeout
        /\ wakes[c] = 1

\* C9: a connection whose initial probe succeeded sends no magic packet and
\* is never in the wake or polling phase: it is at the outbound connect, in
\* forwarding, or ended by one of these two.
C9_SkipWake ==
    \A c \in Conns :
        initial[c] = "ok" =>
            /\ wakes[c] = 0
            /\ pc[c] \in {"connect", "forwarding", "finished", "failed"}
            /\ outcome[c] \in {"none", "ok", "connect_err", "io_err"}

C9_Witness ==
    \E c \in Conns :
        /\ initial[c] = "ok"
        /\ pc[c] = "forwarding"
        /\ wakes[c] = 0
        /\ connects[c] = 1

\* The handshake of task c is over.
HandshakeOver(c) == pc[c] \in {"connect", "forwarding", "finished", "failed"}

C10_TimedOut ==
    \A c \in Conns :
        /\ (/\ initial[c] = "fail"
            /\ HandshakeOver(c)
            /\ outcome[c] # "wake_err"
            /\ ~upSeen[c])
           => pc[c] = "failed" /\ outcome[c] = "timeout"
        /\ outcome[c] = "timeout" => pc[c] = "failed" /\ connects[c] = 0

\* C10: a handshake whose initial probe failed, whose magic packet was sent
\* and whose target was never up while the polling deadline had not passed
\* ends failed with the wake-timeout error; a task with that error made no
\* outbound connect and never forwards; the step that fails it leaves the
\* accept loop running.
C10_WakeTimeout ==
    /\ []C10_TimedOut
    /\ [][\A c \in Conns :
            (pc[c] = "poll" /\ pc'[c] = "failed") => running /\ running']_vars

C10_Witness ==
    \E c \in Conns :
        /\ initial[c] = "fail"
        /\ pc[c] = "failed"
        /\ outcome[c] = "timeout"
        /\ ~upSeen[c]
        /\ running

\* C11 as stated: a handshake does not fail with the wake-timeout error
\* when the target came up, and stayed up, during polling at a moment when
\* the clock of the polling loop was below the wake timeout.
C11_UpBeforeDeadline ==
    \A c \in Conns : upAt[c] < WakeTimeout => outcome[c] # "timeout"

\* C11 amended, state part: a handshake does not fail with the wake-timeout
\* error when the target came up, and stayed up, during polling at least
\* PingTimeout before the wake timeout; it has sent exactly one magic packet.
C11_UpEarlyEnough ==
    \A c \in Conns :
        upAt[c] <= WakeTimeout - PingTimeout =>
            /\ outcome[c] # "timeout"
            /\ pc[c] \in {"poll", "connect"}
            /\ initial[c] = "fail"
            /\ wakes[c] = 1

\* C11 amended: C11_UpEarlyEnough always holds, and a polling loop that has
\* seen the target come up that early returns true (the handshake is Ready,
\* at the outbound connect of line 84) unless the target goes down again or
\* the process exits.
C11_WakeThenProceed ==
    /\ []C11_UpEarlyEnough
    /\ \A c \in Conns :
          (pc[c] = "poll" /\ upAt[c] <= WakeTimeout - PingTimeout)
             ~> (pc[c] = "connect" \/ ~up \/ ~running)

\* A handshake is Ready after the target came up during polling, after the
\* loop began and early enough.
C11_Witness ==
    \E c \in Conns :
        /\ pc[c] = "connect"
        /\ initial[c] = "fail" /\ answered[c]
        /\ wakes[c] = 1
        /\ upAt[c] > 0 /\ upAt[c] <= WakeTimeout - PingTimeout

\* The step ends the handle_client of task c with an error.
TaskFails(c) ==
    \/ pc[c] # "failed" /\ pc'[c] = "failed"
    \/ /\ pc[c] # "finished" /\ pc'[c] = "finished"
       /\ outcome'[c] \in {"connect_err", "io_err"}

\* The step changes nothing of task d.
TaskUntouched(d) ==
    /\ pc'[d] = pc[d] /\ outcome'[d] = outcome[d]
    /\ enters'[d] = enters[d] /\ leaves'[d] = leaves[d]
    /\ elapsed'[d] = elapsed[d] /\ inflight'[d] = inflight[d]
    /\ age'[d] = age[d] /\ initial'[d] = initial[d]
    /\ wakes'[d] = wakes[d] /\ connects'[d] = connects[d]
    /\ answered'[d] = answered[d]

\* C13: a step that ends one connection task with an error changes nothing
\* of any other connection task and leaves the accept loop running.
C13_TaskIsolation ==
    [][\A c \in Conns :
         TaskFails(c) =>
            /\ running /\ running'
            /\ \A d \in Conns \ {c} : TaskUntouched(d)]_vars

\* One task failed in its handshake while another one is being served.
C13_Witness ==
    /\ running
    /\ \E c, d \in Conns :
          /\ pc[c] = "failed" /\ outcome[c] = "timeout"
          /\ pc[d] = "forwarding"

\* C18: a task at or past the outbound connect of line 84 had one of its
\* pings answered; a magic packet is sent only by a task whose initial probe
\* failed, before any attempt of its second ping(), and the second ping()
\* runs only after the packet was sent.
C18_HandshakeOrder ==
    \A c \in Conns :
        /\ (pc[c] \in {"connect", "forwarding", "finished"} \/ connects[c] > 0)
              => answered[c]
        /\ (pc[c] \in {"wake", "poll"} \/ wakes[c] > 0) => initial[c] = "fail"
        /\ pc[c] = "wake" => wakes[c] = 0 /\ ~answered[c] /\ ~inflight[c]
        /\ pc[c] = "poll" => wakes[c] = 1

\* A task forwards after a failed initial probe, one magic packet and an
\* answered polling probe.
C18_Witness ==
    \E c \in Conns :
        /\ pc[c] = "forwarding"
        /\ initial[c] = "fail" /\ wakes[c] = 1
        /\ answered[c] /\ connects[c] = 1

\* C19 (state part): a task whose send_to failed has ended with that error,
\* made no ping attempt after it, no outbound connect, and does not forward.
C19_FailedSend ==
    \A c \in Conns :
        outcome[c] = "wake_err" =>
            /\ pc[c] = "failed"
            /\ initial[c] = "fail" /\ wakes[c] = 1
            /\ ~answered[c] /\ ~inflight[c]
            /\ connects[c] = 0

\* C19: C19_FailedSend always holds; the step in which send_to fails takes
\* the task from line 73 straight to its end and leaves the accept loop
\* running.
C19_WakeSendFailure ==
    /\ []C19_FailedSend
    /\ [][\A c \in Conns :
            (outcome[c] # "wake_err" /\ outcome'[c] = "wake_err") =>
               /\ pc[c] = "wake" /\ pc'[c] = "failed"
               /\ running /\ running']_vars

\* A task ended on a failed send_to and a later connection was accepted.
C19_Witness ==
    /\ running
    /\ \E c, d \in Conns :
          /\ pc[c] = "failed" /\ outcome[c] = "wake_err"
          /\ pc[d] = "spawned"

\* C20: in a behaviour where time keeps advancing no task stays in a ping()
\* loop for ever, and no step calls send_ping_async for a task whose ping()
\* clock is past its timeout.
C20_BoundedPolling ==
    /\ []<><<WTick>>_vars => \A c \in Conns : InPing(c) ~> ~InPing(c)
    /\ [][\A c \in Conns :
            ((inflight'[c] /\ ~inflight[c]) \/ (answered'[c] /\ ~answered[c]))
               => elapsed[c] <= PingTimeoutOf(c)]_vars

\* A polling loop ran past its deadline against a target that was never up
\* and returned false.
C20_Witness ==
    \E c \in Conns :
        /\ pc[c] = "failed" /\ outcome[c] = "timeout"
        /\ ~upSeen[c] /\ ~answered[c]
        /\ elapsed[c] = 0 /\ ~inflight[c]

====
